---- MODULE Spec2Model ----
(***************************************************************************)
(* Model of conceptnet5.vectors.oocframe.OOCFrame: an out-of-core frame    *)
(* whose index is kept in memory and whose vectors are stored one per file *)
(* under a sharded directory tree.                                         *)
(*                                                                         *)
(* Strings (labels, paths, file names) are sequences of one-character      *)
(* strings.  Numbers are exact: a value <<p, q, r>> stands for             *)
(* (p / q) * sqrt(r), so that the square root taken by l2_normalize_rows   *)
(* is exact; q = 0 encodes the IEEE non-finite results of a division by    *)
(* zero (<<1,0,1>> = inf, <<-1,0,1>> = -inf, <<0,0,1>> = nan).             *)
(***************************************************************************)
EXTENDS Integers, Sequences, FiniteSets, TLC

(***************************************************************************)
(* Bounds of the exploration.                                              *)
(***************************************************************************)
MaxInserts == 3
MaxNormalize == 1

(***************************************************************************)
(* String helpers.                                                         *)
(***************************************************************************)
\* str.split(sep): the pieces of s between occurrences of sep
RECURSIVE Split(_, _)
Split(s, sep) ==
    IF \A i \in 1..Len(s) : s[i] # sep
    THEN <<s>>
    ELSE LET k == CHOOSE i \in 1..Len(s) :
                      s[i] = sep /\ \A j \in 1..(i - 1) : s[j] # sep
         IN  <<SubSeq(s, 1, k - 1)>> \o Split(SubSeq(s, k + 1, Len(s)), sep)

\* sep.join(parts)
RECURSIVE Join(_, _)
Join(parts, sep) ==
    IF Len(parts) = 0 THEN <<>>
    ELSE IF Len(parts) = 1 THEN parts[1]
    ELSE parts[1] \o <<sep>> \o Join(Tail(parts), sep)

\* os.path.join(path, *parts) on a POSIX system
RECURSIVE PathJoin(_, _)
PathJoin(path, parts) ==
    IF Len(parts) = 0 THEN path
    ELSE LET b == parts[1]
             joined == IF Len(b) > 0 /\ b[1] = "/" THEN b
                       ELSE IF Len(path) = 0 \/ path[Len(path)] = "/" THEN path \o b
                       ELSE path \o <<"/">> \o b
         IN  PathJoin(joined, Tail(parts))

Digit(n) ==
    CASE n = 0 -> "0" [] n = 1 -> "1" [] n = 2 -> "2" [] n = 3 -> "3"
      [] n = 4 -> "4" [] n = 5 -> "5" [] n = 6 -> "6" [] n = 7 -> "7"
      [] n = 8 -> "8" [] n = 9 -> "9"

\* '{}'.format(n) for a non-negative integer
RECURSIVE Str(_)
Str(n) == IF n < 10 THEN <<Digit(n)>> ELSE Str(n \div 10) \o <<Digit(n % 10)>>

\* The characters NON_WORD_CHAR_RE does not match: [A-Za-z0-9_#]
WordChars ==
    {"a","b","c","d","e","f","g","h","i","j","k","l","m",
     "n","o","p","q","r","s","t","u","v","w","x","y","z",
     "A","B","C","D","E","F","G","H","I","J","K","L","M",
     "N","O","P","Q","R","S","T","U","V","W","X","Y","Z",
     "0","1","2","3","4","5","6","7","8","9","_","#"}

N_CHAR_DIRS == 3

NPY == <<".", "n", "p", "y">>

\* self._path
StorePath == <<"d">>

\* the loop of _label2path: one directory per leading character of the term
RECURSIVE CharDirs(_, _)
CharDirs(term, i) ==
    IF i >= N_CHAR_DIRS THEN <<>>
    ELSE LET ch0 == IF Len(term) > i THEN term[i + 1] ELSE "_"
             ch_i == IF ch0 \notin WordChars THEN "_" ELSE ch0
         IN  <<(<<ch_i>>)>> \o CharDirs(term, i + 1)

\* label2path without line 54: the term is not appended to the directories
label2pathNoTerm(label) ==
    LET splitted == Split(label, "/")
        term == splitted[Len(splitted)]
        lead == SubSeq(splitted, 1, Len(splitted) - 1)
    IN  PathJoin(StorePath, lead \o CharDirs(term, 0))

label2path(label) ==
    LET splitted == Split(label, "/")
        term == splitted[Len(splitted)]
        lead == SubSeq(splitted, 1, Len(splitted) - 1)
    IN  PathJoin(StorePath, lead \o CharDirs(term, 0) \o <<term>>)

\* conceptnet5.vectors.standardized_uri on a language code and a term that
\* is already in normalized form
standardized_uri(language, term) ==
    <<"/", "c", "/">> \o language \o <<"/">> \o term

filepath2label(fpath) ==
    LET splitted == Split(fpath, "/")
        language == splitted[Len(splitted) - N_CHAR_DIRS - 1]
        pieces == Split(splitted[Len(splitted)], ".")
        term == Join(SubSeq(pieces, 1, Len(pieces) - 1), ".")
    IN  standardized_uri(language, term)

\* '{}.npy'.format(fpathroot)
CanonicalName(fpathroot) == fpathroot \o NPY

\* '{}.{}.npy'.format(fpathroot, fid)
SuffixedName(fpathroot, fid) == fpathroot \o <<".">> \o Str(fid) \o NPY

\* '{}{}.npy'.format(fpathroot, '.{}'.format(fid) if fid else '')
ShardName(fpathroot, fid) ==
    fpathroot \o (IF fid # 0 THEN <<".">> \o Str(fid) ELSE <<>>) \o NPY


(***************************************************************************)
(* Exact arithmetic on values <<p, q, r>> = (p / q) * sqrt(r), with        *)
(* gcd(p, q) = 1 and r square-free.                                        *)
(***************************************************************************)
Abs(k) == IF k < 0 THEN -k ELSE k

Sign(k) == IF k < 0 THEN -1 ELSE IF k = 0 THEN 0 ELSE 1

RECURSIVE GCD(_, _)
GCD(a, b) == IF b = 0 THEN a ELSE GCD(b, a % b)

\* the integer square root of n, between lo and hi
RECURSIVE ISqrt(_, _, _)
ISqrt(n, lo, hi) ==
    IF lo >= hi THEN lo
    ELSE LET mid == (lo + hi + 1) \div 2
         IN  IF mid <= n \div mid THEN ISqrt(n, mid, hi)
             ELSE ISqrt(n, lo, mid - 1)

\* the largest k whose square divides n, n having no prime factor below d
RECURSIVE SquarePart(_, _)
SquarePart(n, d) ==
    IF d * d > n \div d
    THEN LET r == ISqrt(n, 1, n) IN IF r * r = n THEN r ELSE 1
    ELSE IF n % (d * d) = 0 THEN d * SquarePart(n \div (d * d), d)
    ELSE IF n % d = 0 THEN SquarePart(n \div d, d + 1)
    ELSE SquarePart(n, d + 1)

NaN == <<0, 0, 1>>

Zero == <<0, 1, 1>>

\* the canonical form of (p / q) * sqrt(r), q >= 0, r square-free
Mk(p, q, r) ==
    IF p = 0 /\ q = 0 THEN NaN
    ELSE IF p = 0 THEN Zero
    ELSE IF q = 0 THEN <<Sign(p), 0, 1>>
    ELSE LET g == GCD(Abs(p), q) IN <<p \div g, q \div g, r>>

\* the rational p / q, q > 0
Rat(p, q) == Mk(p, q, 1)

IsNaN(a) == a = NaN

IsInf(a) == a[2] = 0 /\ a[1] # 0

\* a is a rational number (or non-finite), so that sums with it are exact
IsRational(a) == a[3] = 1

VMul(a, b) ==
    LET g == GCD(a[3], b[3])
        x == IF a[2] = 0 \/ b[2] = 0 THEN 1 ELSE GCD(Abs(a[1]), b[2])
        y == IF a[2] = 0 \/ b[2] = 0 THEN 1 ELSE GCD(Abs(b[1]), a[2])
    IN  Mk((a[1] \div x) * (b[1] \div y) * g, (a[2] \div y) * (b[2] \div x),
           (a[3] \div g) * (b[3] \div g))

VRecip(a) ==
    IF IsNaN(a) THEN NaN
    ELSE IF a = Zero THEN <<1, 0, 1>>
    ELSE IF IsInf(a) THEN Zero
    ELSE Mk(Sign(a[1]) * a[2], Abs(a[1]) * a[3], a[3])

VDiv(a, b) == VMul(a, VRecip(b))

\* a + b for rational (or non-finite) a and b
VAdd(a, b) ==
    IF IsNaN(a) \/ IsNaN(b) THEN NaN
    ELSE IF IsInf(a) /\ IsInf(b) THEN (IF a = b THEN a ELSE NaN)
    ELSE IF IsInf(a) THEN a
    ELSE IF IsInf(b) THEN b
    ELSE LET g == GCD(a[2], b[2])
         IN  Rat(a[1] * (b[2] \div g) + b[1] * (a[2] \div g),
                 (a[2] \div g) * b[2])

\* np.sqrt of a non-negative rational (or non-finite) value
VSqrt(a) ==
    IF IsNaN(a) \/ IsInf(a) \/ a = Zero THEN a
    ELSE LET kp == SquarePart(a[1], 2)
             kq == SquarePart(a[2], 2)
             mp == a[1] \div (kp * kp)
             mq == a[2] \div (kq * kq)
         IN  Mk(kp, kq * mq, mp * mq)

\* element-wise operations on vectors (numpy arrays of one dimension)
VecAdd(u, v) == [j \in 1..Len(u) |-> VAdd(u[j], v[j])]

VecDiv(u, v) == [j \in 1..Len(u) |-> VDiv(u[j], v[j])]

VecScale(u, c) == [j \in 1..Len(u) |-> VMul(u[j], c)]

VecUnscale(u, c) == [j \in 1..Len(u) |-> VDiv(u[j], c)]

VecRational(u) == \A j \in 1..Len(u) : IsRational(u[j])

RECURSIVE SumSq(_, _)
\* np.sum(np.power(data, 2)), accumulated from element j on
SumSq(data, j) ==
    IF j > Len(data) THEN Zero
    ELSE VAdd(VMul(data[j], data[j]), SumSq(data, j + 1))

\* an integer vector as a numpy array
Vec(ints) == [j \in 1..Len(ints) |-> Rat(ints[j], 1)]

(***************************************************************************)
(* Inputs of the exploration.                                              *)
(***************************************************************************)
CAT == <<"/", "c", "/", "e", "n", "/", "c", "a", "t">>

CAT1 == CAT \o <<".", "1">>

CATN == CAT \o <<"/", "n">>

Labels == {CAT, CAT1, CATN}

\* the (data, weight) pairs offered to insert
Rows == {<<(<<1, 1>>), 1>>, <<(<<3, 1>>), 2>>, <<(<<0, 0>>), 1>>}

(***************************************************************************)
(* State.  frozen stands for "_fileroots2ids is None and                   *)
(* _filenames2weights is None"; fileroots2ids lists the <<root, id>>       *)
(* entries of the dictionary in its iteration order.  files is the         *)
(* directory tree below StorePath, path_exists tells whether StorePath     *)
(* exists.  The remaining variables record the history: the successful     *)
(* insertions, whether the directory is what successful insertions and a   *)
(* successful combine_weights alone produce, whether combine_weights has   *)
(* completed, the last call and its outcome, and the number of             *)
(* normalization passes run.                                               *)
(***************************************************************************)
VARIABLES frozen, fileroots2ids, filenames2weights, index, files, path_exists,
          inserted, clean, finalized, lastOp, err, passes

vars == <<frozen, fileroots2ids, filenames2weights, index, files, path_exists,
          inserted, clean, finalized, lastOp, err, passes>>

Put(f, k, v) == [x \in DOMAIN f \cup {k} |-> IF x = k THEN v ELSE f[x]]

\* os.remove left out: the file stays
RemoveNothing(f, k) == f

Remove(f, k) == [x \in DOMAIN f \ {k} |-> f[x]]

Empty == [x \in {} |-> 0]

AllRational(fs) == \A f \in DOMAIN fs : VecRational(fs[f])

HasRoot(ids, root) == \E k \in 1..Len(ids) : ids[k][1] = root

\* self._fileroots2ids[fpathroot] += 1 on a defaultdict(lambda: 0)
Increment(ids, root) ==
    IF HasRoot(ids, root)
    THEN [k \in 1..Len(ids) |->
             IF ids[k][1] = root THEN <<root, ids[k][2] + 1>> ELSE ids[k]]
    ELSE Append(ids, <<root, 1>>)

IdOf(ids, root) ==
    LET k == CHOOSE k \in 1..Len(ids) : ids[k][1] = root IN ids[k][2]

Init ==
    /\ frozen = FALSE
    /\ fileroots2ids = <<>>
    /\ filenames2weights = Empty
    /\ index = <<>>
    /\ files = Empty
    /\ path_exists = FALSE
    /\ inserted = <<>>
    /\ clean = TRUE
    /\ finalized = FALSE
    /\ lastOp = "init"
    /\ err = "ok"
    /\ passes = 0

\* disable_insert on an instance whose _index is the list labels: the two
\* dictionaries become None; pd.Index keeps the elements of the list,
\* repeated ones included
disable_insert(labels) ==
    /\ frozen' = TRUE
    /\ fileroots2ids' = <<>>
    /\ filenames2weights' = Empty
    /\ index' = labels

\* the test of insert without effect
InsertNeverDisabled == FALSE

\* `self._fileroots2ids is None`
InsertDisabled == frozen

insert(label, data, weight) ==
    /\ lastOp' = "insert"
    /\ UNCHANGED <<frozen, finalized, passes>>
    /\ IF InsertDisabled
       THEN /\ err' = "InsertDisabled"
            /\ UNCHANGED <<fileroots2ids, filenames2weights, index, files,
                           path_exists, inserted, clean>>
       ELSE /\ Len(index) < MaxInserts
            /\ index' = Append(index, label)
            /\ LET fpathroot == label2path(label)
                   taken == CanonicalName(fpathroot) \in DOMAIN files
                   ids == IF taken THEN Increment(fileroots2ids, fpathroot)
                          ELSE fileroots2ids
                   fname == IF taken
                            THEN SuffixedName(fpathroot, IdOf(ids, fpathroot))
                            ELSE CanonicalName(fpathroot)
               IN  /\ fileroots2ids' = ids
                   /\ IF fname \in DOMAIN files
                      THEN /\ err' = "FileExists"
                           /\ clean' = FALSE
                           /\ UNCHANGED <<filenames2weights, files,
                                          path_exists, inserted>>
                      ELSE /\ err' = "ok"
                           /\ filenames2weights' =
                                  Put(filenames2weights, fname, weight)
                           /\ files' = Put(files, fname, Vec(data))
                           /\ path_exists' = TRUE
                           /\ inserted' = Append(inserted,
                                  [label |-> label, data |-> data,
                                   weight |-> weight])
                           /\ UNCHANGED clean

\* data * weight without the weight
Unweighted(data, weight) == data

\* data * weight
Weighted(data, weight) == VecScale(data, Rat(weight, 1))

\* the inner loop of combine_weights for one file root, from file id fid on,
\* and the save of the weighted average
RECURSIVE CombineRoot(_, _, _, _, _, _)
CombineRoot(fpathroot, maxid, fid, fs, weighted_avg, weightsum) ==
    IF fid > maxid
    THEN [files |-> Put(fs, CanonicalName(fpathroot),
                        VecUnscale(weighted_avg, Rat(weightsum, 1))),
          err |-> "ok"]
    ELSE LET fname == ShardName(fpathroot, fid) IN
         IF fname \notin DOMAIN filenames2weights
         THEN [files |-> fs, err |-> "KeyError"]
         ELSE IF fname \notin DOMAIN fs
         THEN [files |-> fs, err |-> "FileNotFound"]
         ELSE LET weight == filenames2weights[fname]
                  term == Weighted(fs[fname], weight)
                  acc == IF fid = 0 THEN term ELSE VecAdd(weighted_avg, term)
              IN  CombineRoot(fpathroot, maxid, fid + 1, Remove(fs, fname),
                              acc, weightsum + weight)

\* the outer loop of combine_weights, from the k-th dictionary entry on
RECURSIVE CombineAll(_, _)
CombineAll(k, fs) ==
    IF k > Len(fileroots2ids) THEN [files |-> fs, err |-> "ok"]
    ELSE LET r == CombineRoot(fileroots2ids[k][1], fileroots2ids[k][2],
                              0, fs, <<>>, 0)
         IN  IF r.err # "ok" THEN r ELSE CombineAll(k + 1, r.files)

\* the test of combine_weights as `self._filenames2weights is None`
NothingToCombineIfNone == frozen

\* `not self._filenames2weights`: None or an empty dictionary
NothingToCombine == frozen \/ DOMAIN filenames2weights = {}

combine_weights ==
    /\ lastOp' = "combine_weights"
    /\ UNCHANGED <<path_exists, inserted, passes>>
    /\ IF NothingToCombine
       THEN /\ err' = "NothingToCombine"
            /\ UNCHANGED <<frozen, fileroots2ids, filenames2weights, index,
                           files, clean, finalized>>
       ELSE /\ AllRational(files)
            /\ LET r == CombineAll(1, files)
               IN  /\ files' = r.files
                   /\ err' = r.err
                   /\ IF r.err = "ok"
                      THEN /\ disable_insert(index)
                           /\ finalized' = TRUE
                           /\ UNCHANGED clean
                      ELSE /\ clean' = FALSE
                           /\ UNCHANGED <<frozen, fileroots2ids,
                                          filenames2weights, index, finalized>>

FileOf(label) == CanonicalName(label2path(label))

Loadable(fs) == \A k \in 1..Len(index) : FileOf(index[k]) \in DOMAIN fs

\* first loop of l1_normalize_columns, over index[1..k]
RECURSIVE ColNorms(_, _)
ColNorms(k, fs) ==
    IF k = 1 THEN fs[FileOf(index[1])]
    ELSE VecAdd(ColNorms(k - 1, fs), fs[FileOf(index[k])])

\* second loop of l1_normalize_columns, from index[k] on
RECURSIVE DivideAll(_, _, _)
DivideAll(k, fs, col_norms) ==
    IF k > Len(index) THEN fs
    ELSE LET fname == FileOf(index[k])
         IN  DivideAll(k + 1, Put(fs, fname, VecDiv(fs[fname], col_norms)),
                       col_norms)

l1_normalize_columns ==
    /\ passes < MaxNormalize
    /\ AllRational(files)
    /\ lastOp' = "l1_normalize_columns"
    /\ passes' = passes + 1
    /\ clean' = FALSE
    /\ UNCHANGED <<frozen, fileroots2ids, filenames2weights, index,
                   path_exists, inserted, finalized>>
    /\ IF ~Loadable(files)
       THEN /\ err' = "FileNotFound"
            /\ UNCHANGED files
       ELSE /\ err' = "ok"
            /\ files' = IF Len(index) = 0 THEN files
                        ELSE DivideAll(1, files, ColNorms(Len(index), files))

\* the rewrite of one vector by l2_normalize_rows
L2Row(data) == VecUnscale(data, VSqrt(SumSq(data, 1)))

\* the loop of l2_normalize_rows, from index[k] on
RECURSIVE L2Rows(_, _)
L2Rows(k, fs) ==
    IF k > Len(index) THEN [files |-> fs, err |-> "ok"]
    ELSE LET fname == FileOf(index[k]) IN
         IF fname \notin DOMAIN fs
         THEN [files |-> fs, err |-> "FileNotFound"]
         ELSE L2Rows(k + 1, Put(fs, fname, L2Row(fs[fname])))

l2_normalize_rows ==
    /\ passes < MaxNormalize
    /\ lastOp' = "l2_normalize_rows"
    /\ passes' = passes + 1
    /\ clean' = FALSE
    /\ UNCHANGED <<frozen, fileroots2ids, filenames2weights, index,
                   path_exists, inserted, finalized>>
    /\ LET r == L2Rows(1, files)
       IN  /\ files' = r.files
           /\ err' = r.err

\* the enumerations of a set, one of which os.walk and glob produce
Orders(S) ==
    {o \in [1..Cardinality(S) -> S] :
        \A a, b \in 1..Cardinality(S) : a # b => o[a] # o[b]}

\* OOCFrame(StorePath): a new instance against the same path
construct ==
    /\ lastOp' = "construct"
    /\ err' = "ok"
    /\ UNCHANGED <<files, path_exists, inserted, clean, finalized, passes>>
    /\ IF path_exists
       THEN \E fpaths \in Orders(DOMAIN files) :
               disable_insert([k \in 1..Len(fpaths) |->
                                  filepath2label(fpaths[k])])
       ELSE /\ frozen' = FALSE
            /\ fileroots2ids' = <<>>
            /\ filenames2weights' = Empty
            /\ index' = <<>>

Next ==
    \/ \E label \in Labels, row \in Rows : insert(label, row[1], row[2])
    \/ combine_weights
    \/ l1_normalize_columns
    \/ l2_normalize_rows
    \/ construct

Spec == Init /\ [][Next]_vars

(***************************************************************************)
(* Vocabulary of the properties.                                           *)
(***************************************************************************)
InsertedLabels == {inserted[k].label : k \in 1..Len(inserted)}

Positions(label) == {k \in 1..Len(inserted) : inserted[k].label = label}

Times(label) == Cardinality(Positions(label))

RECURSIVE WeightedTotal(_, _)
WeightedTotal(S, j) ==
    IF S = {} THEN 0
    ELSE LET k == CHOOSE k \in S : TRUE
         IN  inserted[k].data[j] * inserted[k].weight
                 + WeightedTotal(S \ {k}, j)

RECURSIVE WeightTotal(_)
WeightTotal(S) ==
    IF S = {} THEN 0
    ELSE LET k == CHOOSE k \in S : TRUE
         IN  inserted[k].weight + WeightTotal(S \ {k})

\* sum(v_i * w_i) / sum(w_i) over the insertions of label
Mean(label) ==
    LET P == Positions(label)
        first == CHOOSE k \in P : TRUE
    IN  [j \in 1..Len(inserted[first].data) |->
            Rat(WeightedTotal(P, j), WeightTotal(P))]

\* combine_weights has just completed, after a write phase in which every
\* call was an insert that succeeded
AfterCombine == lastOp = "combine_weights" /\ err = "ok" /\ clean

IndexSet == {index[k] : k \in 1..Len(index)}

RECURSIVE FirstOccurrences(_)
FirstOccurrences(labels) ==
    IF Len(labels) = 0 THEN <<>>
    ELSE LET rest == FirstOccurrences(SubSeq(labels, 1, Len(labels) - 1))
             last == labels[Len(labels)]
         IN  IF \E k \in 1..Len(rest) : rest[k] = last THEN rest
             ELSE Append(rest, last)

RECURSIVE ColumnSum(_, _, _)
ColumnSum(fs, S, j) ==
    IF S = {} THEN Zero
    ELSE LET f == CHOOSE f \in S : TRUE
         IN  VAdd(fs[f][j], ColumnSum(fs, S \ {f}, j))

Columns(fs) == LET f == CHOOSE f \in DOMAIN fs : TRUE IN 1..Len(fs[f])

IsZeroVector(data) == \A j \in 1..Len(data) : data[j] = Zero

C2_InsertDisabledForGood ==
    [][/\ frozen => frozen'
       /\ (frozen /\ lastOp' = "insert") =>
              /\ err' = "InsertDisabled"
              /\ files' = files
              /\ index' = index]_vars

\* an insert has failed on an instance constructed against the path that
\* an unfinished write phase had created
C2_Witness ==
    /\ frozen
    /\ lastOp = "insert"
    /\ err = "InsertDisabled"
    /\ Len(index) > 0
    /\ ~finalized

(***************************************************************************)
(* C3: after combine_weights following successful inserts, the files on    *)
(* disk are exactly the canonical files of the path-roots inserted: one    *)
(* per root and no suffixed shard file.                                    *)
(***************************************************************************)
C3_OnlyCanonicalFiles ==
    AfterCombine => DOMAIN files = {FileOf(label) : label \in InsertedLabels}

C3_Witness ==
    /\ AfterCombine
    /\ \E label \in InsertedLabels : Times(label) = 3

(***************************************************************************)
(* C4: after combine_weights the index holds each distinct label inserted  *)
(* once, in the order of first insertion.                                  *)
(***************************************************************************)
C4_IndexDeduplicated ==
    AfterCombine =>
        /\ index = FirstOccurrences([k \in 1..Len(inserted) |-> inserted[k].label])
        /\ Len(index) = Cardinality(InsertedLabels)

(***************************************************************************)
(* C5: l1_normalize_columns and l2_normalize_rows called on a store that   *)
(* is still writable fail with the invalid-state error and rewrite no      *)
(* file.                                                                   *)
(***************************************************************************)
C5_NormalizeNeedsFrozen ==
    [][(~frozen /\ lastOp' \in {"l1_normalize_columns", "l2_normalize_rows"}) =>
           /\ err' = "InvalidState"
           /\ files' = files]_vars

(***************************************************************************)
(* C6: a new instance constructed against the path of a store that was     *)
(* filled by inserts and finalized by combine_weights is frozen and its    *)
(* index, as a set, is the set of labels inserted.                         *)
(***************************************************************************)
C6_ReconstructedLabels ==
    (lastOp = "construct" /\ finalized /\ clean) =>
        /\ frozen
        /\ IndexSet = InsertedLabels

(***************************************************************************)
(* C7: l1_normalize_columns on the store left by inserts and               *)
(* combine_weights, when no column sums to zero, leaves every column       *)
(* summing to 1 over the stored files.                                     *)
(***************************************************************************)
C7_ColumnsSumToOne ==
    [][(/\ AfterCombine
        /\ lastOp' = "l1_normalize_columns"
        /\ \A j \in Columns(files) : ColumnSum(files, DOMAIN files, j) # Zero) =>
           \A j \in Columns(files) :
               ColumnSum(files', DOMAIN files', j) = Rat(1, 1)]_vars

C9_ZeroVectorRejected ==
    [][(/\ frozen
        /\ lastOp' = "l2_normalize_rows"
        /\ \E k \in 1..Len(index) :
               /\ FileOf(index[k]) \in DOMAIN files
               /\ IsZeroVector(files[FileOf(index[k])])) =>
           /\ err' = "DegenerateVector"
           /\ \A f \in DOMAIN files : IsZeroVector(files[f]) => files'[f] = files[f]]_vars

(***************************************************************************)
(* C10: combine_weights succeeds only on a writable store with at least    *)
(* one insertion, which it freezes; on a store without insertions or       *)
(* already frozen it fails, touches no file and leaves the phase; a        *)
(* frozen store never becomes writable again.                              *)
(***************************************************************************)
C10_CombineOnce ==
    [][/\ frozen => frozen'
       /\ lastOp' = "combine_weights" =>
              /\ err' = "ok" => (~frozen /\ Len(inserted) >= 1 /\ frozen')
              /\ (frozen \/ Len(inserted) = 0) =>
                     /\ err' # "ok"
                     /\ files' = files
                     /\ index' = index
                     /\ frozen' = frozen]_vars

\* a second combine_weights on the store the first one froze has failed
C10_Witness ==
    /\ lastOp = "combine_weights"
    /\ err = "NothingToCombine"
    /\ frozen
    /\ finalized
    /\ clean

(***************************************************************************)
(* C11: on a writable store whose directory nothing else writes to, no     *)
(* insert finds its target file name taken by a file of another            *)
(* path-root: insert never fails with the file-already-exists error,       *)
(* whatever the labels, those with '.' and digits in the term included.    *)
(***************************************************************************)
C11_NoFileNameCollision ==
    (lastOp = "insert" /\ ~frozen /\ passes = 0) => err # "FileExists"

====
